---------------------------- MODULE Spec2Model ----------------------------
(***************************************************************************)
(* A model of repipy's Target facade (src/target.py) and of its image       *)
(* arithmetic (src/arith.py).  Target: classification of an                *)
(* exposure from its header text and from the catalog of standard stars,   *)
(* the memoized derived properties, the spectrum resource, the flux grid   *)
(* and the aperture photometry with its temporary coordinate file.         *)
(*                                                                         *)
(* Text is a sequence of one-character strings.  Floating-point sky        *)
(* coordinates are integers (only their order is used by the code);        *)
(* wavelengths are integers counting tenths of an Angstrom, so that ceil   *)
(* and floor are real conversions.  None is the empty sequence <<>> and a  *)
(* present value v is <<v>>.                                               *)
(***************************************************************************)
EXTENDS Integers, Sequences, FiniteSets, TLC

VARIABLES
    name_in_header,   \* self.header.hdr[self.header.objectk]
    stds,             \* the catalog loaded from standards.csv
    corners,          \* world coordinates of pixel (0,0) and pixel (lx,ly)
    filter_curve,     \* self.filter.filter_curve: <<>> or <<[wmin, wmax]>>
    standard_spectra, \* the directory standard_spectra: file name -> lines
    memo,             \* caches of the memoized methods of this Target
    ncalls,           \* how often each memoized method computed its value
    seeing,           \* self.header.hdr[self.header.seeingk]
    loads,            \* how often `spectra` loaded a spectrum resource
    files,            \* files present: coordinate files and the photometry file
    ntmp,             \* how many names tempfile.mkstemp has handed out
    log,              \* external effects of the last run of _get_photometry
    op,               \* the property read last
    ret,              \* value of the last property access (<<>> is None)
    exc,              \* exception raised by the last property access
    args,             \* arith.py: the namespace parser.parse_args returned
    disk,             \* arith.py: FITS files, absolute path -> pixels and mask
    images            \* arith.py: per input image, what was read and written

vars == <<name_in_header, stds, corners, filter_curve, standard_spectra,
          seeing, memo, ncalls, loads, files, ntmp, log, op, ret, exc,
          args, disk, images>>

-----------------------------------------------------------------------------
(* Bounds of the model.                                                    *)

\* words concatenated into a header object field
MaxWords == 3
\* loads of a spectrum resource per behaviour
MaxLoads == 5
\* temporary coordinate files created per behaviour
MaxTmp == 2

-----------------------------------------------------------------------------
(* Characters and text.                                                    *)

Digits == {"0", "1", "2", "3", "4", "5", "6", "7", "8", "9"}

\* str.upper on one character: what re.I compares by
Upper(c) ==
    CASE c = "a" -> "A" [] c = "b" -> "B" [] c = "c" -> "C" [] c = "d" -> "D"
      [] c = "e" -> "E" [] c = "f" -> "F" [] c = "g" -> "G" [] c = "h" -> "H"
      [] c = "i" -> "I" [] c = "j" -> "J" [] c = "k" -> "K" [] c = "l" -> "L"
      [] c = "m" -> "M" [] c = "n" -> "N" [] c = "o" -> "O" [] c = "p" -> "P"
      [] c = "q" -> "Q" [] c = "r" -> "R" [] c = "s" -> "S" [] c = "t" -> "T"
      [] c = "u" -> "U" [] c = "v" -> "V" [] c = "w" -> "W" [] c = "x" -> "X"
      [] c = "y" -> "Y" [] c = "z" -> "Z" [] OTHER -> c

\* str.lower on one character
Lower(c) ==
    CASE c = "A" -> "a" [] c = "B" -> "b" [] c = "C" -> "c" [] c = "D" -> "d"
      [] c = "E" -> "e" [] c = "F" -> "f" [] c = "G" -> "g" [] c = "H" -> "h"
      [] c = "I" -> "i" [] c = "J" -> "j" [] c = "K" -> "k" [] c = "L" -> "l"
      [] c = "M" -> "m" [] c = "N" -> "n" [] c = "O" -> "o" [] c = "P" -> "p"
      [] c = "Q" -> "q" [] c = "R" -> "r" [] c = "S" -> "s" [] c = "T" -> "t"
      [] c = "U" -> "u" [] c = "V" -> "v" [] c = "W" -> "w" [] c = "X" -> "x"
      [] c = "Y" -> "y" [] c = "Z" -> "z" [] OTHER -> c

\* s with every character of the set drop removed
RECURSIVE Without(_, _)
Without(s, drop) ==
    IF s = <<>> THEN <<>>
    ELSE IF Head(s) \in drop THEN Without(Tail(s), drop)
         ELSE <<Head(s)>> \o Without(Tail(s), drop)

\* name_in_header.replace(" ", ""): removes the blanks, and only the blanks
replace_blanks(s) == Without(s, {" "})

-----------------------------------------------------------------------------
(* The regular expressions of regexp_dict, as re.match(key, text, re.I)    *)
(* evaluates them: anchored at the start of the text, letters compared     *)
(* without case, '.' matching any character but a newline.                 *)

\* the literal lit stands in s at position i
LitAt(s, i, lit) ==
    /\ i + Len(lit) - 1 <= Len(s)
    /\ \A k \in 1..Len(lit) : Upper(s[i + k - 1]) = Upper(lit[k])

\* '.*lit' matches a prefix of s: lit stands somewhere, no newline before it
DotStarLit(s, lit) ==
    \E i \in 1..Len(s) :
        /\ LitAt(s, i, lit)
        /\ \A j \in 1..(i - 1) : s[j] # "\n"

\* number of digits at the start of s, at most n   (\d{1,n}, greedy)
RECURSIVE DigitRun(_, _)
DigitRun(s, n) ==
    IF n = 0 \/ s = <<>> \/ Head(s) \notin Digits THEN 0
    ELSE 1 + DigitRun(Tail(s), n - 1)

\* s from position i on
From(s, i) == IF i > Len(s) THEN <<>> ELSE SubSeq(s, i, Len(s))

NoMatch == [ok |-> FALSE, named |-> <<>>]
Matched(groups) == [ok |-> TRUE, named |-> groups]

\* '(?P<name>C(?:IG)?)(?P<number>\d{1,4})': C, then IG if digits follow it,
\* else digits right after the C
match_cig(s) ==
    IF ~LitAt(s, 1, <<"C">>) THEN NoMatch
    ELSE IF LitAt(s, 2, <<"I", "G">>) /\ DigitRun(From(s, 4), 4) >= 1
         THEN Matched([name |-> SubSeq(s, 1, 3),
                       number |-> SubSeq(s, 4, 3 + DigitRun(From(s, 4), 4))])
         ELSE IF DigitRun(From(s, 2), 4) >= 1
              THEN Matched([name |-> SubSeq(s, 1, 1),
                            number |-> SubSeq(s, 2, 1 + DigitRun(From(s, 2), 4))])
              ELSE NoMatch

K_bias == ".*BIAS.*"
K_skyflat == "(?=.*SKY)(?=.*FLAT)"
K_domeflat == "(?=.*DOME)(?=.*FLAT)"
K_flat == "(.*FLAT)"
K_blank == "(.* BLANK)"
K_cig == "(?P<name>C(?:IG)?)(?P<number>\\d{1,4})"

\* re.match(key, s, re.I)
re_match(key, s) ==
    CASE key = K_bias ->
           IF DotStarLit(s, <<"B", "I", "A", "S">>) THEN Matched(<<>>) ELSE NoMatch
      [] key = K_skyflat ->
           IF /\ DotStarLit(s, <<"S", "K", "Y">>)
              /\ DotStarLit(s, <<"F", "L", "A", "T">>)
           THEN Matched(<<>>) ELSE NoMatch
      [] key = K_domeflat ->
           IF /\ DotStarLit(s, <<"D", "O", "M", "E">>)
              /\ DotStarLit(s, <<"F", "L", "A", "T">>)
           THEN Matched(<<>>) ELSE NoMatch
      [] key = K_flat ->
           IF DotStarLit(s, <<"F", "L", "A", "T">>) THEN Matched(<<>>) ELSE NoMatch
      [] key = K_blank ->
           IF DotStarLit(s, <<" ", "B", "L", "A", "N", "K">>)
           THEN Matched(<<>>) ELSE NoMatch
      [] key = K_cig -> match_cig(s)

\* regexp_dict, in the order its literal declares the rules
regexp_dict ==
    << [key |-> K_bias,     value |-> "bias"],
       [key |-> K_skyflat,  value |-> "skyflat"],
       [key |-> K_domeflat, value |-> "domeflat"],
       [key |-> K_flat,     value |-> "flat"],
       [key |-> K_blank,    value |-> "blank"],
       [key |-> K_cig,      value |-> "cig"] >>

\* the orderings of a set of rule indices
\* (iteritems_orders: the orders regexp_dict.iteritems() may yield the rules
\* in; a dict keeps no declaration order, the hash of the keys decides)
RECURSIVE Orderings(_)
Orderings(S) ==
    IF S = {} THEN {<<>>}
    ELSE UNION {{<<x>> \o o : o \in Orderings(S \ {x})} : x \in S}

iteritems_orders == Orderings(1..Len(regexp_dict))

\* the characters of a type label (type labels are str; names are text)
Text(label) ==
    CASE label = "bias" -> <<"b", "i", "a", "s">>
      [] label = "skyflat" -> <<"s", "k", "y", "f", "l", "a", "t">>
      [] label = "domeflat" -> <<"d", "o", "m", "e", "f", "l", "a", "t">>
      [] label = "flat" -> <<"f", "l", "a", "t">>
      [] label = "blank" -> <<"b", "l", "a", "n", "k">>
      [] label = "cig" -> <<"c", "i", "g">>
      [] label = "Unknown" -> <<"U", "n", "k", "n", "o", "w", "n">>

-----------------------------------------------------------------------------
(* Results of a call: the state it leaves, and a value or an exception.    *)
(* The state a call threads is the record of the mutable variables.        *)

Cur == [memo |-> memo, ncalls |-> ncalls, loads |-> loads, files |-> files,
        ntmp |-> ntmp, log |-> log]

Ok(t, v) == [t |-> t, val |-> v, exc |-> "none"]
Raise(t, e) == [t |-> t, val |-> <<>>, exc |-> e]

\* the least element of a non-empty set of integers
Least(S) == CHOOSE x \in S : \A y \in S : x <= y

\* utilities.memoize: the body runs when the cache holds nothing, and what it
\* returns (None too) is kept; an exception leaves the cache as it was
memoize(t, fn, r) ==
    IF Len(t.memo[fn]) > 0 THEN Ok(t, t.memo[fn][1])
    ELSE IF r.exc # "none"
         THEN Raise(r.t, r.exc)
         ELSE Ok([r.t EXCEPT !.memo[fn] = <<r.val>>, !.ncalls[fn] = @ + 1], r.val)

\* utilities.if_exists_remove
if_exists_remove(fs, f) == fs \ {f}

-----------------------------------------------------------------------------
(* Classification.                                                         *)

min(a, b) == IF a < b THEN a ELSE b
max(a, b) == IF a > b THEN a ELSE b

\* (a variant of Between that admits the ends)
Between_closed(a, b, c) == a <= b /\ b <= c

\* a < b < c, the chained comparison of line 203
Between(a, b, c) == a < b /\ b < c

\* (a variant of _name_using_coordinates with another default label)
name_using_coordinates_lowercase ==
    LET inside == {ii \in 1..Len(stds) :
                     /\ Between(min(corners[1][1], corners[2][1]), stds[ii].ra,
                                max(corners[1][1], corners[2][1]))
                     /\ Between(min(corners[1][2], corners[2][2]), stds[ii].dec,
                                max(corners[1][2], corners[2][2]))}
    IN  IF inside = {} THEN <<"unknown", <<"u", "n", "k", "n", "o", "w", "n">>>>
        ELSE <<"standard", stds[Least(inside)].std_names>>

_name_using_coordinates ==
    LET ra_min == corners[1][1]
        dec_min == corners[1][2]
        ra_max == corners[2][1]
        dec_max == corners[2][2]
        inside == {ii \in 1..Len(stds) :
                     /\ Between(min(ra_min, ra_max), stds[ii].ra, max(ra_min, ra_max))
                     /\ Between(min(dec_min, dec_max), stds[ii].dec, max(dec_min, dec_max))}
    IN  IF inside = {} THEN <<"Unknown", Text("Unknown")>>
        ELSE <<"standard", stds[Least(inside)].std_names>>

\* (a variant of for_loop that never appends the captured number)
for_loop_label_only(order, matches, fallback) ==
    LET hits == {i \in 1..Len(regexp_dict) : matches[order[i]].ok}
    IN  IF hits = {} THEN fallback
        ELSE <<regexp_dict[order[Least(hits)]].value,
               Text(regexp_dict[order[Least(hits)]].value)>>

\* the for loop of _get_object over the rules in the order `order`; matches[k]
\* is re.match of rule k on the text, fallback the result of the else branch
for_loop(order, matches, fallback) ==
    LET hits == {i \in 1..Len(regexp_dict) : matches[order[i]].ok}
    IN  IF hits = {} THEN fallback
        ELSE LET rule == regexp_dict[order[Least(hits)]]
                 match == matches[order[Least(hits)]]
             IN  <<rule.value,
                   IF "number" \in DOMAIN match.named
                   THEN Text(rule.value) \o match.named.number
                   ELSE Text(rule.value)>>

\* what the body of _get_object returns, for each of a set of iteration orders
get_object_bodies(orders) ==
    {for_loop(order, matches, fallback) :
        matches \in {[k \in 1..Len(regexp_dict) |->
                        re_match(regexp_dict[k].key, replace_blanks(name_in_header))]},
        fallback \in {_name_using_coordinates},
        order \in orders}

\* `body` is what the body of _get_object returns, should it run
_get_object(t, body) == memoize(t, "_get_object", Ok(t, body))

objtype(t, body) ==
    LET r == _get_object(t, body) IN Ok(r.t, <<r.val[1]>>)

objname(t, body) ==
    LET r == _get_object(t, body) IN Ok(r.t, <<r.val[2]>>)

\* Target.__str__: re.sub('[-+\s_]', "", self.objname.lower())
str(name) ==
    Without([i \in 1..Len(name) |-> Lower(name[i])], {"-", "+", "_", " ", "\t", "\n"})

-----------------------------------------------------------------------------
(* Coordinates of the target.                                              *)

_get_RaDec(t, body) ==
    LET r == objname(t, body)
        index == {ii \in 1..Len(stds) : stds[ii].std_names = r.val[1]}
        pick(col) == {stds[ii][col] : ii \in index}
    IN  memoize(t, "_get_RaDec",
                Ok(r.t, [n |-> Cardinality(index), ra |-> pick("ra"), dec |-> pick("dec")]))

\* float(array): defined for an array of one element only
float_of(t, n, column) ==
    IF n = 1 THEN Ok(t, <<Least(column)>>) ELSE Raise(t, "TypeError")

RA(t, body) ==
    LET r == _get_RaDec(t, body) IN float_of(r.t, r.val.n, r.val.ra)

DEC(t, body) ==
    LET r == _get_RaDec(t, body) IN float_of(r.t, r.val.n, r.val.dec)

-----------------------------------------------------------------------------
(* The spectrum of a standard star.                                        *)

\* line.split() gives two tokens and float() accepts both
two_floats(line) == Len(line) = 2 /\ line[1].isfloat /\ line[2].isfloat

\* lines 84-94: the index (from 0) of the first line of two floats is the
\* number of header lines; nn stays unbound when there is no such line
load_spectrum(lines) ==
    LET numeric == {ii \in 0..(Len(lines) - 1) : two_floats(lines[ii + 1])}
    IN  IF numeric = {} THEN [exc |-> "UnboundLocalError", nn |-> 0, data |-> <<>>]
        ELSE [exc |-> "none", nn |-> Least(numeric),
              data |-> From(lines, Least(numeric) + 1)]

\* the property Target.spectra: not memoized, every access loads again
spectra(t, body) ==
    LET r == objtype(t, body)
        n == objname(r.t, body)
        file == str(n.val[1])
    IN  IF r.val[1] # "standard" THEN Ok(n.t, <<>>)
        ELSE IF file \notin DOMAIN standard_spectra THEN Raise(n.t, "IOError")
        ELSE LET sp == load_spectrum(standard_spectra[file])
                 t2 == [n.t EXCEPT !.loads = @ + 1]
             IN  IF sp.exc # "none" THEN Raise(t2, sp.exc)
                 ELSE Ok(t2, <<[skip_header |-> sp.nn, data |-> sp.data]>>)

-----------------------------------------------------------------------------
(* Flux under the filter.  Wavelengths are tenths of an Angstrom; the grid *)
(* is in whole Angstrom.  The interpolated values are not modelled: the    *)
(* result is the grid the terms of the sum are taken on.  interp1d refuses *)
(* a cubic interpolation through fewer than four points.                   *)

\* int(numpy.ceil(w)) and int(numpy.floor(w)) of w tenths, w >= 0
ceil(w) == (w + 9) \div 10
floor(w) == w \div 10

\* (a variant of arange that includes the stop)
arange_closed(a, b) == [i \in 1..(b - a + 1) |-> a + i - 1]

\* numpy.arange(a, b)
arange(a, b) == [i \in 1..(b - a) |-> a + i - 1]

\* lines 158-184, the spectrum being present
integrate(wavelength_filter) ==
    LET wav_min == ceil(Least(wavelength_filter))
        wav_max == floor(-Least({-w : w \in wavelength_filter}))
        wavelength == arange(wav_min, wav_max)
    IN  IF Cardinality(wavelength_filter) < 4
        THEN [exc |-> "ValueError", result |-> <<>>]    \* interp1d, kind='cubic'
        ELSE IF Len(wavelength) < 2
        THEN [exc |-> "IndexError", result |-> <<>>]    \* wavelength[1], line 175
        ELSE [exc |-> "none",
              result |-> [x |-> wavelength,
                          delta_lambda |-> wavelength[2] - wavelength[1],
                          terms |-> Len(wavelength)]]

_get_flux(t, body) ==
    LET r1 == spectra(t, body)
        r2 == spectra(r1.t, body)
        r3 == spectra(r2.t, body)
        f == integrate(filter_curve[1])
    IN  memoize(t, "_get_flux",
                IF r1.exc # "none" THEN r1
                ELSE IF r1.val = <<>> THEN Ok(r1.t, <<>>)
                ELSE IF r2.exc # "none" THEN r2
                ELSE IF r3.exc # "none" THEN r3
                ELSE IF f.exc # "none" THEN Raise(r3.t, f.exc)
                ELSE Ok(r3.t, <<f.result>>))

\* (a variant of flux that does not look at the spectrum)
flux_ignoring_spectrum(t, body) ==
    LET r == spectra(t, body)
    IN  IF r.exc # "none" THEN r
        ELSE IF filter_curve # <<>> THEN _get_flux(r.t, body)
        ELSE Ok(r.t, <<>>)

\* the property Target.flux
flux(t, body) ==
    LET r == spectra(t, body)
    IN  IF r.exc # "none" THEN r
        ELSE IF r.val # <<>> /\ filter_curve # <<>> THEN _get_flux(r.t, body)
        ELSE Ok(r.t, <<>>)

-----------------------------------------------------------------------------
(* Aperture photometry.                                                    *)

\* self.header.im_name + ".mag.1", and the n-th name mkstemp hands out
photfile_name == <<"mag.1", 0>>
coords_name(n) == <<"standards.coords", n>>

\* what iraf.phot and iraf.txdump can do: phot fails; txdump yields no single
\* value; the value is not a number (INDEF); a number
phot_outcomes == {"phot_fails", "txdump_not_one", "indef", "ok"}

\* (a variant of phot_standard with annulus and dannulus exchanged)
phot_standard_swapped(t, coords_file, outcome) ==
    LET kwargs == [apert |-> 2 * seeing, annulus |-> 3 * seeing, dannulus |-> 6 * seeing,
                 coords |-> coords_file]
        t1 == [t EXCEPT !.files = if_exists_remove(@, photfile_name),
                        !.log = @ \o <<[op |-> "remove", file |-> photfile_name]>>]
        t2 == [t1 EXCEPT !.log = @ \o <<[op |-> "phot", args |-> kwargs]>>]
        t3 == [t2 EXCEPT !.files = @ \cup {photfile_name},
                         !.log = @ \o <<[op |-> "txdump", file |-> photfile_name]>>]
        t4 == [t3 EXCEPT !.files = if_exists_remove(@, coords_file),
                         !.log = @ \o <<[op |-> "remove", file |-> coords_file]>>]
    IN  IF outcome = "phot_fails" THEN Raise(t2, "IrafError")
        ELSE IF outcome = "txdump_not_one" THEN Raise(t3, "ValueError")
        ELSE IF outcome = "indef" THEN Raise(t4, "ValueError")
        ELSE Ok(t4, <<"counts">>)

\* lines 109-123: the target is a standard, the coordinate file is written
phot_standard(t, coords_file, outcome) ==
    LET kwargs == [apert |-> 2 * seeing, annulus |-> 6 * seeing, dannulus |-> 3 * seeing,
                 coords |-> coords_file]
        t1 == [t EXCEPT !.files = if_exists_remove(@, photfile_name),
                        !.log = @ \o <<[op |-> "remove", file |-> photfile_name]>>]
        t2 == [t1 EXCEPT !.log = @ \o <<[op |-> "phot", args |-> kwargs]>>]
        t3 == [t2 EXCEPT !.files = @ \cup {photfile_name},
                         !.log = @ \o <<[op |-> "txdump", file |-> photfile_name]>>]
        t4 == [t3 EXCEPT !.files = if_exists_remove(@, coords_file),
                         !.log = @ \o <<[op |-> "remove", file |-> coords_file]>>]
    IN  IF outcome = "phot_fails" THEN Raise(t2, "IrafError")
        ELSE IF outcome = "txdump_not_one" THEN Raise(t3, "ValueError")
        ELSE IF outcome = "indef" THEN Raise(t4, "ValueError")
        ELSE Ok(t4, <<"counts">>)

\* the body of _get_photometry
get_photometry_body(t, body, outcome) ==
    LET coords_file == coords_name(t.ntmp + 1)
        t1 == [t EXCEPT !.ntmp = @ + 1, !.files = @ \cup {coords_file},
                        !.log = <<[op |-> "mkstemp", file |-> coords_file]>>]
        ra == RA(t1, body)
        dec == DEC(ra.t, body)
        t2 == [dec.t EXCEPT !.log = @ \o
                 <<[op |-> "write", file |-> coords_file, line |-> <<ra.val[1], dec.val[1]>>],
                   [op |-> "close", file |-> coords_file]>>]
        ty == objtype(t2, body)
    IN  IF ra.exc # "none" THEN ra
        ELSE IF dec.exc # "none" THEN dec
        ELSE IF ty.val[1] = "standard" THEN phot_standard(ty.t, coords_file, outcome)
        ELSE Ok(ty.t, <<>>)

_get_photometry(t, body, outcome) ==
    memoize(t, "_get_photometry", get_photometry_body(t, body, outcome))

\* the property Target.counts
counts(t, body, outcome) == _get_photometry(t, body, outcome)

-----------------------------------------------------------------------------
(* Inputs.                                                                 *)

\* words a header object field is written with
Words ==
    { <<"B", "I", "A", "S">>, <<"s", "k", "y">>, <<"D", "o", "m", "e">>,
      <<"F", "L", "A", "T">>, <<"B", "L", "A", "N", "K">>, <<"c", "i", "g">>,
      <<"C">>, <<"0", "1", "2", "3">>, <<"4", "5">>, <<"x">>, <<" ">> }

\* the concatenations of at most n words
RECURSIVE Phrases(_)
Phrases(n) ==
    IF n = 0 THEN {<<>>}
    ELSE LET shorter == Phrases(n - 1)
         IN  shorter \cup {p \o w : p \in shorter, w \in Words}

\* object fields of the scenarios of the facade
HeaderTexts ==
    { <<"B", "I", "A", "S">>,
      <<"c", "i", "g", "0", "1", "2", "3">>,
      <<"D", "o", "m", "e", " ", "F", "l", "a", "t">>,
      <<"u", "n", "r", "e", "l", "a", "t", "e", "d", " ", "t", "e", "x", "t">> }

HD100 == <<"H", "D", "1", "0", "0">>
BD28 == <<"B", "D", "+", "2", "8">>

Star(name, ra, dec) == [std_names |-> name, ra |-> ra, dec |-> dec]

\* declinations of catalog entries (right ascensions: 150 and 151)
DECs == {19, 20, 21}

\* entries of a catalog
MaxStars == 2

\* the catalogs of at most n entries
RECURSIVE CatalogsUpTo(_)
CatalogsUpTo(n) ==
    IF n = 0 THEN {<<>>}
    ELSE LET shorter == CatalogsUpTo(n - 1)
         IN  shorter \cup {Append(c, Star(name, ra, dec)) :
                             c \in shorter, name \in {HD100, BD28},
                             ra \in {150, 151}, dec \in DECs}

\* catalogs of the scenarios of the facade: none, two stars, a name twice
Catalogs ==
    { <<>>,
      <<Star(HD100, 150, 20), Star(BD28, 150, 21)>>,
      <<Star(HD100, 150, 20), Star(HD100, 149, 19)>> }

\* images: one holding (150, 20), read in either orientation, and one not
Boxes == { <<<<149, 19>>, <<151, 21>>>>, <<<<151, 21>>, <<149, 19>>>>,
           <<<<149, 19>>, <<150, 20>>>> }

\* a text line of a spectrum resource, and a line of two numbers
TextLine == <<[isfloat |-> FALSE], [isfloat |-> FALSE], [isfloat |-> FALSE]>>
OneNumber == <<[isfloat |-> TRUE]>>
HalfNumbers == <<[isfloat |-> TRUE], [isfloat |-> FALSE]>>
DataLine == <<[isfloat |-> TRUE], [isfloat |-> TRUE]>>

\* the directory standard_spectra: a good resource, one without data, none
SpectraDirs ==
    { (<<"h", "d", "1", "0", "0">> :> <<TextLine, OneNumber, HalfNumbers, DataLine, DataLine>>),
      (<<"h", "d", "1", "0", "0">> :> <<TextLine, OneNumber>>),
      <<>> }

\* filter curves, as the wavelengths of their points in tenths of an
\* Angstrom: none, 4000.2-4999.8, 4000.2-4003.5, 4000.2-4001.9
FilterCurves ==
    { <<>>, <<{40002, 43000, 46000, 49998}>>, <<{40002, 40010, 40020, 40035}>>,
      <<{40002, 40008, 40012, 40019}>> }

\* filter curves of four points with their ends between 4000.2 and 4004.1
\* Angstrom, and curves of two points
Wavelengths == {40002, 40008, 40010, 40019, 40020, 40035, 40041}
NarrowCurves ==
    {<<{c[1], c[1] + 1, c[1] + 2, c[2]}>> :
        c \in {d \in Wavelengths \X Wavelengths : d[2] >= d[1] + 3}}
    \cup {<<{40002, hi}>> : hi \in Wavelengths}

Seeings == {2, 3}

-----------------------------------------------------------------------------
(* The state machine: a Target is constructed, then its properties are     *)
(* read in any order, any number of times.                                 *)

NoMemo == [_get_object |-> <<>>, _get_RaDec |-> <<>>,
           _get_photometry |-> <<>>, _get_flux |-> <<>>]
NoCalls == [_get_object |-> 0, _get_RaDec |-> 0, _get_photometry |-> 0, _get_flux |-> 0]

Fresh ==
    /\ memo = NoMemo
    /\ ncalls = NoCalls
    /\ loads = 0
    /\ ntmp = 0
    /\ log = <<>>
    /\ op = "__init__"
    /\ ret = <<>>
    /\ exc = "none"
    /\ args = <<>>
    /\ disk = <<>>
    /\ images = <<>>

Init ==
    /\ name_in_header \in HeaderTexts
    /\ stds \in Catalogs
    /\ corners \in Boxes
    /\ filter_curve \in FilterCurves
    /\ standard_spectra \in SpectraDirs
    /\ seeing \in Seeings
    /\ files \in {{}, {photfile_name}}
    /\ Fresh

\* what the body of _get_object can return in this process: the order of the
\* dict is any one; it is read only when the body runs, the cache being empty
bodies_read ==
    IF Len(memo["_get_object"]) > 0 THEN {memo["_get_object"][1]}
    ELSE get_object_bodies(iteritems_orders)

\* the access ends: the state it leaves, its value or its exception
Commit(name, r) ==
    /\ op' = name
    /\ r.t.loads <= MaxLoads
    /\ r.t.ntmp <= MaxTmp
    /\ memo' = r.t.memo
    /\ ncalls' = r.t.ncalls
    /\ loads' = r.t.loads
    /\ files' = r.t.files
    /\ ntmp' = r.t.ntmp
    /\ log' = r.t.log
    /\ ret' = r.val
    /\ exc' = r.exc
    /\ UNCHANGED <<name_in_header, stds, corners, filter_curve, standard_spectra, seeing>>
    /\ UNCHANGED <<args, disk, images>>

Get_objtype == \E body \in bodies_read : Commit("objtype", objtype(Cur, body))
Get_objname == \E body \in bodies_read : Commit("objname", objname(Cur, body))
Get_RA == \E body \in bodies_read : Commit("RA", RA(Cur, body))
Get_DEC == \E body \in bodies_read : Commit("DEC", DEC(Cur, body))
Get_spectra == \E body \in bodies_read : Commit("spectra", spectra(Cur, body))
Get_flux == \E body \in bodies_read : Commit("flux", flux(Cur, body))
Get_counts ==
    \E body \in bodies_read, outcome \in phot_outcomes :
        Commit("counts", counts(Cur, body, outcome))

Next ==
    \/ Get_objtype
    \/ Get_objname
    \/ Get_RA
    \/ Get_DEC
    \/ Get_spectra
    \/ Get_flux
    \/ Get_counts

Spec == Init /\ [][Next]_vars

-----------------------------------------------------------------------------
(* Classification alone, over every object field of at most MaxWords       *)
(* words, with the catalog star in or out of the image.                    *)

InitClassify ==
    /\ name_in_header \in Phrases(MaxWords)
    /\ stds \in {<<>>, <<Star(HD100, 150, 20)>>}
    /\ corners = <<<<149, 19>>, <<151, 21>>>>
    /\ filter_curve = <<>>
    /\ standard_spectra = <<>>
    /\ seeing = 2
    /\ files = {}
    /\ Fresh

NextClassify == Get_objtype \/ Get_objname

SpecClassify == InitClassify /\ [][NextClassify]_vars

(* Classification by coordinates, over every catalog of at most MaxStars   *)
(* entries and the four orientations of an image from (149, 19) to         *)
(* (151, 21).                                                              *)

InitCoords ==
    /\ name_in_header = <<"u", "n", "r", "e", "l", "a", "t", "e", "d">>
    /\ stds \in CatalogsUpTo(MaxStars)
    /\ corners \in {<<<<ra0, dec0>>, <<300 - ra0, 40 - dec0>>>> :
                       ra0 \in {149, 151}, dec0 \in {19, 21}}
    /\ filter_curve = <<>>
    /\ standard_spectra = <<>>
    /\ seeing = 2
    /\ files = {}
    /\ Fresh

NextCoords == Get_objtype \/ Get_objname

SpecCoords == InitCoords /\ [][NextCoords]_vars

(* The flux of a standard star, over filter curves of every support.       *)

InitFlux ==
    /\ name_in_header = <<"u", "n", "r", "e", "l", "a", "t", "e", "d">>
    /\ stds = <<Star(HD100, 150, 20)>>
    /\ corners = <<<<149, 19>>, <<151, 21>>>>
    /\ filter_curve \in FilterCurves \cup NarrowCurves
    /\ standard_spectra \in SpectraDirs
    /\ seeing = 2
    /\ files = {}
    /\ Fresh

NextFlux == Get_spectra \/ Get_flux

SpecFlux == InitFlux /\ [][NextFlux]_vars

-----------------------------------------------------------------------------
(* Properties.                                                             *)

\* _get_object has run: its result is in the cache
classified == Len(memo["_get_object"]) > 0
cls_type == memo["_get_object"][1][1]
cls_name == memo["_get_object"][1][2]

\* the rules whose expression matches the text s
matching(s) == {k \in 1..Len(regexp_dict) : re_match(regexp_dict[k].key, s).ok}

\* the object field as _get_object hands it to re.match
field == replace_blanks(name_in_header)

Whitespace == {" ", "\t", "\n"}

\* s without leading and trailing whitespace
RECURSIVE strip(_)
strip(s) ==
    IF s = <<>> THEN s
    ELSE IF Head(s) \in Whitespace THEN strip(Tail(s))
    ELSE IF s[Len(s)] \in Whitespace THEN strip(SubSeq(s, 1, Len(s) - 1))
    ELSE s

\* the catalog entries inside the image, its border excluded / included
strictly_inside ==
    {ii \in 1..Len(stds) :
        /\ stds[ii].ra > min(corners[1][1], corners[2][1])
        /\ stds[ii].ra < max(corners[1][1], corners[2][1])
        /\ stds[ii].dec > min(corners[1][2], corners[2][2])
        /\ stds[ii].dec < max(corners[1][2], corners[2][2])}
inside_or_on_border ==
    {ii \in 1..Len(stds) :
        /\ stds[ii].ra >= min(corners[1][1], corners[2][1])
        /\ stds[ii].ra <= max(corners[1][1], corners[2][1])
        /\ stds[ii].dec >= min(corners[1][2], corners[2][2])
        /\ stds[ii].dec <= max(corners[1][2], corners[2][2])}

\* C1: the rules are tried in declaration order and the first match wins:
\* the type of a classified field is the type of the first rule, in the
\* order bias, skyflat, domeflat, flat, blank, cig, that matches it.
C1_FirstDeclaredRuleWins ==
    (classified /\ matching(field) # {}) =>
        cls_type = regexp_dict[Least(matching(field))].value

\* C2: after every invocation of counts, returning or raising, no temporary
\* coordinate file is left in the filesystem.
C2_CoordsFileRemoved ==
    op = "counts" => \A n \in 1..ntmp : coords_name(n) \notin files

\* C3: every derived value is computed at most once per Target, and the
\* spectrum resource is loaded at most once.
C3_ComputedAtMostOnce ==
    /\ \A fn \in DOMAIN ncalls : ncalls[fn] <= 1
    /\ loads <= 1

\* C4 (as stated): with no rule matching and no catalog entry inside the
\* image the result is ("unknown", "unknown"), and every objtype is one of
\* bias, skyflat, domeflat, flat, blank, cig, standard, unknown.
C4_UnknownLowercase ==
    classified =>
        /\ (matching(field) = {} /\ strictly_inside = {}) =>
               /\ cls_type = "unknown"
               /\ cls_name = <<"u", "n", "k", "n", "o", "w", "n">>
        /\ cls_type \in {"bias", "skyflat", "domeflat", "flat", "blank", "cig",
                         "standard", "unknown"}

\* C4 (amended): with no rule matching and no catalog entry inside the image
\* the result is ("Unknown", "Unknown"), capitalised, and every objtype is
\* one of bias, skyflat, domeflat, flat, blank, cig, standard, Unknown.
C4_UnknownCapitalised ==
    classified =>
        /\ (matching(field) = {} /\ strictly_inside = {}) =>
               /\ cls_type = "Unknown"
               /\ cls_name = <<"U", "n", "k", "n", "o", "w", "n">>
        /\ cls_type \in {"bias", "skyflat", "domeflat", "flat", "blank", "cig",
                         "standard", "Unknown"}

\* C4, witness: a field no rule matches, no star in the image, classified
C4_Witness ==
    /\ classified
    /\ matching(field) = {}
    /\ stds = <<>>
    /\ cls_type = "Unknown"
    /\ op = "objtype"
    /\ ret = <<"Unknown">>

\* C5 (as stated): a field no rule matches is classified as the first catalog
\* entry, in catalog order, inside the image or on its border.
C5_FirstEntryInClosedBox ==
    (classified /\ matching(field) = {} /\ inside_or_on_border # {}) =>
        /\ cls_type = "standard"
        /\ cls_name = stds[Least(inside_or_on_border)].std_names

\* C5 (amended): a field no rule matches is classified as the first catalog
\* entry, in catalog order, strictly inside the image (ra strictly between
\* the smaller and the larger corner ra, dec likewise), whichever corner is
\* the larger; an entry on the border is not in the image, and with no entry
\* strictly inside the type is not standard.
C5_FirstEntryStrictlyInside ==
    (classified /\ matching(field) = {}) =>
        IF strictly_inside = {} THEN cls_type # "standard"
        ELSE /\ cls_type = "standard"
             /\ cls_name = stds[Least(strictly_inside)].std_names

\* C5, witness: corner 0 has the larger ra and dec, two entries of different
\* names are strictly inside, and the first of them names the target
C5_Witness ==
    /\ classified
    /\ corners[1][1] > corners[2][1]
    /\ corners[1][2] > corners[2][2]
    /\ Cardinality(strictly_inside) = 2
    /\ stds[1].std_names # stds[2].std_names
    /\ cls_type = "standard"
    /\ cls_name = stds[1].std_names

\* the flux is computed: its grid, and the ends of the filter's support
flux_known == Len(memo["_get_flux"]) > 0 /\ Len(memo["_get_flux"][1]) > 0
integral == memo["_get_flux"][1][1]
support_min == Least(filter_curve[1])
support_max == -Least({-w : w \in filter_curve[1]})
\* n = ceil(w / 10), n = floor(w / 10)
is_ceil(n, w) == 10 * n >= w /\ 10 * (n - 1) < w
is_floor(n, w) == 10 * n <= w /\ 10 * (n + 1) > w

\* C6 (as stated): the grid is every integer from ceil(min) to floor(max)
\* inclusive, floor(max) - ceil(min) + 1 points, one term of the sum each.
C6_GridClosed ==
    flux_known =>
        /\ is_ceil(integral.x[1], support_min)
        /\ is_floor(integral.x[Len(integral.x)], support_max)
        /\ \A i \in 1..(Len(integral.x) - 1) : integral.x[i + 1] = integral.x[i] + 1
        /\ integral.terms = Len(integral.x)

\* C6 (amended): the grid is every integer from ceil(min) to floor(max) - 1
\* inclusive, step 1: floor(max) is not a grid point, the grid has
\* floor(max) - ceil(min) points, and each contributes one term of the sum.
C6_GridHalfOpen ==
    flux_known =>
        /\ is_ceil(integral.x[1], support_min)
        /\ is_floor(integral.x[Len(integral.x)] + 1, support_max)
        /\ \A i \in 1..(Len(integral.x) - 1) : integral.x[i + 1] = integral.x[i] + 1
        /\ integral.terms = Len(integral.x)
        /\ integral.delta_lambda = 1

\* C6, witness: the filter from 4000.2 to 4999.8 gives the grid 4001..4998
C6_Witness ==
    /\ flux_known
    /\ support_min = 40002
    /\ support_max = 49998
    /\ integral.x[1] = 4001
    /\ integral.x[Len(integral.x)] = 4998
    /\ integral.terms = 998
    /\ op = "flux"

\* C7: with a spectrum and a filter whose grid has fewer than two points
\* (floor(max) - ceil(min) < 2), flux is absent and nothing is raised.
C7_NarrowSupportGivesAbsence ==
    ( /\ op = "flux"
      /\ exc \notin {"IOError", "UnboundLocalError", "ValueError"}
      /\ filter_curve # <<>>
      /\ floor(support_max) - ceil(support_min) < 2 ) =>
        exc = "none" /\ ret = <<>>

\* C8: a field that, stripped of surrounding whitespace, matches one of the
\* six rules in any letter case gets the type of a rule it matches; a field
\* reading BLANK gets the type blank.
C8_MatchingFieldGetsRuleType ==
    classified =>
        /\ matching(strip(name_in_header)) # {} =>
               cls_type \in {regexp_dict[k].value : k \in matching(strip(name_in_header))}
        /\ strip(name_in_header) = <<"B", "L", "A", "N", "K">> => cls_type = "blank"

\* the digits the cig rule captures from s: those after the C or CIG that
\* starts s, four at most
cig_digits(s) ==
    LET p == IF Len(s) >= 3 /\ Upper(s[2]) = "I" /\ Upper(s[3]) = "G" THEN 3 ELSE 1
        n == Least({k \in 0..4 : k = 4 \/ p + k + 1 > Len(s) \/ s[p + k + 1] \notin Digits})
    IN  SubSeq(s, p + 1, p + n)

\* C9: a field classified by the cig rule is named cig followed by exactly
\* the captured digits (cig0123 and C0123 are both named cig0123); a field
\* classified by another rule is named by its type; nothing is raised.
C9_NameOfRegexTarget ==
    (classified /\ cls_type \notin {"standard", "Unknown"}) =>
        /\ exc = "none"
        /\ cls_type = "cig" =>
               /\ cig_digits(field) # <<>>
               /\ cls_name = <<"c", "i", "g">> \o cig_digits(field)
        /\ cls_type = "bias" => cls_name = <<"b", "i", "a", "s">>
        /\ cls_type = "skyflat" => cls_name = <<"s", "k", "y", "f", "l", "a", "t">>
        /\ cls_type = "domeflat" => cls_name = <<"d", "o", "m", "e", "f", "l", "a", "t">>
        /\ cls_type = "flat" => cls_name = <<"f", "l", "a", "t">>
        /\ cls_type = "blank" => cls_name = <<"b", "l", "a", "n", "k">>
        /\ name_in_header \in {<<"c", "i", "g", "0", "1", "2", "3">>, <<"C", "0", "1", "2", "3">>} =>
               cls_name = <<"c", "i", "g", "0", "1", "2", "3">>

\* C9, witness: the field C0123 is classified, and objname read
C9_Witness ==
    /\ classified
    /\ name_in_header = <<"C", "0", "1", "2", "3">>
    /\ cls_type = "cig"
    /\ op = "objname"
    /\ ret = <<<<"c", "i", "g", "0", "1", "2", "3">>>>

\* the catalog entries named as the target is
named_as_target == {ii \in 1..Len(stds) : stds[ii].std_names = cls_name}

\* C10: RA and DEC of a target whose name is no catalog entry's are absent,
\* nothing is raised; of a target named as exactly one entry, they are that
\* entry's ra and dec.
C10_RaDecAbsentOrCatalogValue ==
    (op \in {"RA", "DEC"}) =>
        /\ named_as_target = {} => (exc = "none" /\ ret = <<>>)
        /\ Cardinality(named_as_target) = 1 =>
               /\ exc = "none"
               /\ \E ii \in named_as_target :
                      ret = <<IF op = "RA" THEN stds[ii].ra ELSE stds[ii].dec>>

-----------------------------------------------------------------------------
(* src/arith.py: pixel arithmetic between images, with masks.              *)
(* An image is [data, mask]: the pixel values and, per pixel, whether it   *)
(* is masked.  Pixel values are whole numbers; the images drawn below keep *)
(* every quotient and every mean whole, so that integer and floating-point *)
(* arithmetic agree on them.                                               *)

DigitValue(c) ==
    CASE c = "0" -> 0 [] c = "1" -> 1 [] c = "2" -> 2 [] c = "3" -> 3
      [] c = "4" -> 4 [] c = "5" -> 5 [] c = "6" -> 6 [] c = "7" -> 7
      [] c = "8" -> 8 [] c = "9" -> 9

\* whether float(s) returns: the texts of the model are file names, the
\* empty text, or unsigned whole numbers
is_float(s) == s # <<>> /\ \A i \in 1..Len(s) : s[i] \in Digits

\* float(s) for a text of digits
RECURSIVE float(_)
float(s) ==
    IF s = <<>> THEN 0
    ELSE 10 * float(SubSeq(s, 1, Len(s) - 1)) + DigitValue(s[Len(s)])

\* the working directory of the process
cwd == <<"/", "w">>

\* os.path.abspath
abspath(path) == IF path # <<>> /\ Head(path) = "/" THEN path ELSE cwd \o <<"/">> \o path

\* os.path.split: the place of the last slash divides directory and file
split(path) ==
    LET slashes == {i \in 1..Len(path) : path[i] = "/"}
        last == CHOOSE i \in slashes : \A j \in slashes : j <= i
    IN  IF slashes = {} THEN [dir |-> <<>>, file |-> path]
        ELSE [dir |-> SubSeq(path, 1, last - 1), file |-> From(path, last + 1)]

\* os.path.join of a directory and a file name
join(dir, file) == dir \o <<"/">> \o file

\* re.match(r'(^.*?)(\..*)', outfile): the root ends before the first dot
match_root_ext(outfile) ==
    LET dots == {i \in 1..Len(outfile) : outfile[i] = "."}
    IN  IF dots = {} THEN NoMatch
        ELSE Matched([root |-> SubSeq(outfile, 1, Least(dots) - 1),
                      ext |-> From(outfile, Least(dots))])

\* utils.read_image_with_mask: the pixels of the file and their mask
read_image_with_mask(d, image) == [data |-> d[abspath(image)].data, mask |-> d[abspath(image)].mask]

\* lines 21-24: a number becomes a masked array of one unmasked element
read_input2(d, input2) ==
    IF is_float(input2) THEN [data |-> <<float(input2)>>, mask |-> <<FALSE>>]
    ELSE read_image_with_mask(d, input2)

\* numpy broadcasting: an array of one element meets every pixel
at(arr, i) == IF Len(arr) = 1 THEN arr[1] ELSE arr[i]

\* MaskedArray.compressed: the values of the pixels that are not masked
RECURSIVE compressed(_)
compressed(im) ==
    IF im.data = <<>> THEN <<>>
    ELSE (IF Head(im.mask) THEN <<>> ELSE <<Head(im.data)>>)
         \o compressed([data |-> Tail(im.data), mask |-> Tail(im.mask)])

RECURSIVE sum(_)
sum(v) == IF v = <<>> THEN 0 ELSE Head(v) + sum(Tail(v))

\* v in ascending order
RECURSIVE sorted(_)
sorted(v) ==
    IF v = <<>> THEN <<>>
    ELSE LET i == CHOOSE i \in 1..Len(v) : \A j \in 1..Len(v) : v[i] <= v[j]
         IN  <<v[i]>> \o sorted(SubSeq(v, 1, i - 1) \o From(v, i + 1))

\* numpy.ma.mean: the mean of the unmasked values, masked when there is none
ma_mean(im) ==
    LET v == compressed(im)
    IN  IF v = <<>> THEN [masked |-> TRUE, data |-> <<>>]
        ELSE [masked |-> FALSE, data |-> <<sum(v) \div Len(v)>>]

\* numpy.ma.median: the middle of the unmasked values
ma_median(im) ==
    LET v == sorted(compressed(im))
        n == Len(v)
    IN  IF n = 0 THEN [masked |-> TRUE, data |-> <<>>]
        ELSE IF n % 2 = 1 THEN [masked |-> FALSE, data |-> <<v[(n + 1) \div 2]>>]
        ELSE [masked |-> FALSE, data |-> <<(v[n \div 2] + v[n \div 2 + 1]) \div 2>>]

\* lines 35-40: the second operand
reduce_input2(a, im2) ==
    IF a.median THEN ma_median(im2)
    ELSE IF a.mean THEN ma_mean(im2)
    ELSE [masked |-> FALSE, data |-> im2.data]

RECURSIVE pow(_, _)
pow(x, y) == IF y <= 0 THEN 1 ELSE x * pow(x, y - 1)

\* lines 28-32: the table of operations
operations == {"+", "-", "*", "/", "**"}

oper(o, x, y) ==
    CASE o = "+" -> x + y
      [] o = "-" -> x - y
      [] o = "*" -> x * y
      [] o = "/" -> x \div y
      [] o = "**" -> pow(x, y)

\* line 44: the pixels of the result.  An operation with the masked constant
\* (the mean or median of an image with every pixel masked) leaves, by
\* operation and library version, the first operand's value or 0.
result_data(o, im1, operand2, masked_data) ==
    [i \in 1..Len(im1.data) |->
        IF operand2.masked THEN (IF masked_data = "left" THEN im1.data[i] ELSE 0)
        ELSE oper(o, im1.data[i], at(operand2.data, i))]

\* (a variant of result_mask that forgets the mask of input2)
result_mask_input1_only(im1, im2) == [i \in 1..Len(im1.mask) |-> im1.mask[i]]

\* line 45: masked in im1 or in im2
result_mask(im1, im2) == [i \in 1..Len(im1.mask) |-> im1.mask[i] \/ at(im2.mask, i)]

\* MaskedArray.filled
filled(result, fill_value) ==
    [i \in 1..Len(result.data) |-> IF result.mask[i] THEN fill_value ELSE result.data[i]]

\* lines 49-50
fill(a, result) ==
    IF a.fill_val # <<>> THEN [result EXCEPT !.data = filled(result, float(a.fill_val))]
    ELSE result

\* lines 54-63: where the result of this image goes
output_path(a, image) ==
    LET outpt == IF a.output # <<>> THEN abspath(a.output) ELSE abspath(image)
        parts == split(outpt)
        m == match_root_ext(parts.file)
    IN  IF ~m.ok THEN NoMatch
        ELSE Matched(join(parts.dir, a.prefix \o m.named.root \o a.suffix \o m.named.ext))

\* lines 66-69
mask_path(a, outpt) == IF a.mask_name # <<>> THEN a.mask_name ELSE outpt \o <<".", "m", "s", "k">>

\* astype(int) of a mask
as_int(mask) == [i \in 1..Len(mask) |-> IF mask[i] THEN 1 ELSE 0]

\* lines 93-98: both old files are removed, then the image is written with
\* the header of input1 (which names the mask of input1) and then the mask;
\* fits.writeto refuses a path that exists
save(d, image, outpt, mask_name, result) ==
    LET hdr_im == d[abspath(image)].mask
        removed == [f \in DOMAIN d \ {outpt, abspath(mask_name)} |-> d[f]]
        d1 == [f \in DOMAIN removed \cup {outpt} |->
                  IF f = outpt THEN [data |-> result.data, mask |-> hdr_im] ELSE removed[f]]
        d2 == [f \in DOMAIN d1 \cup {abspath(mask_name)} |->
                  IF f = abspath(mask_name)
                  THEN [data |-> as_int(result.mask), mask |-> [i \in 1..Len(result.mask) |-> FALSE]]
                  ELSE d1[f]]
    IN  IF abspath(mask_name) = outpt THEN [disk |-> d1, exc |-> "IOError"]
        ELSE [disk |-> d2, exc |-> "none"]

\* lines 18-99: the loop over args.input1, from input image number ii on;
\* s is [disk, images, output_list]
RECURSIVE arith_loop(_, _, _, _)
arith_loop(a, s, ii, masked_data) ==
    IF ii > Len(a.input1) THEN [s |-> s, exc |-> "none"]
    ELSE
    LET image == a.input1[ii]
    IN  IF abspath(image) \notin DOMAIN s.disk THEN [s |-> s, exc |-> "IOError"]
        ELSE IF ~is_float(a.input2) /\ abspath(a.input2) \notin DOMAIN s.disk
             THEN [s |-> s, exc |-> "IOError"]
        ELSE IF a.operation \notin operations THEN [s |-> s, exc |-> "KeyError"]
        ELSE
        LET im1 == read_image_with_mask(s.disk, image)
            im2 == read_input2(s.disk, a.input2)
            operand2 == reduce_input2(a, im2)
            result == fill(a, [data |-> result_data(a.operation, im1, operand2, masked_data),
                               mask |-> result_mask(im1, im2)])
            out == output_path(a, image)
        IN  IF ~out.ok THEN [s |-> s, exc |-> "AttributeError"]
            ELSE
            LET outpt == out.named
                mask_name == mask_path(a, outpt)
                saved == save(s.disk, image, outpt, mask_name, result)
                done == [image |-> image, im1 |-> im1, im2 |-> im2, operand2 |-> operand2,
                         result |-> result, outpt |-> outpt, mask_name |-> mask_name]
                s1 == [disk |-> saved.disk, images |-> Append(s.images, done),
                       output_list |-> s.output_list]
            IN  IF saved.exc # "none" THEN [s |-> s1, exc |-> saved.exc]
                ELSE arith_loop(a, [s1 EXCEPT !.output_list = Append(@, outpt)],
                                ii + 1, masked_data)

arith(a, d, masked_data) ==
    arith_loop(a, [disk |-> d, images |-> <<>>, output_list |-> <<>>], 1, masked_data)

\* lines 166-169: an option given arrives as a list of one text and is
\* stripped; an option not given is the empty text
stripped(option) == IF option # <<>> THEN strip(option[1]) ELSE option

\* lines 158-179
main(parsed, d, masked_data) ==
    LET a == [parsed EXCEPT !.suffix = stripped(@), !.prefix = stripped(@)]
        r == arith(a, d, masked_data)
        newname == r.s.output_list
    IN  IF a.output = <<>> /\ a.prefix = <<>> /\ a.suffix = <<>> /\ a.overwrite = FALSE
        THEN [args |-> a, disk |-> d, images |-> <<>>, val |-> <<>>, exc |-> "SystemExit"]
        ELSE [args |-> a, disk |-> r.s.disk, images |-> r.s.images,
              val |-> IF r.exc # "none" THEN <<>>
                      ELSE IF Len(newname) = 1 THEN <<newname[1]>> ELSE <<newname>>,
              exc |-> r.exc]

\* the command lines and the directories of the model
a_fits == <<"a", ".", "f", "i", "t", "s">>
ba_fits == <<"b", "a", ".", "f", "i", "t", "s">>
m_fits == <<"m", ".", "f", "i", "t", "s">>
o_fits == <<"o", ".", "f", "i", "t", "s">>
k_fits == <<"k", ".", "f", "i", "t", "s">>

Masks == {<<FALSE, FALSE>>, <<TRUE, FALSE>>, <<FALSE, TRUE>>, <<TRUE, TRUE>>}

Disks ==
    {(abspath(a_fits) :> [data |-> <<6, 12>>, mask |-> ma])
       @@ (abspath(ba_fits) :> [data |-> <<12, 6>>, mask |-> <<FALSE, TRUE>>])
       @@ (abspath(m_fits) :> [data |-> <<1, 3>>, mask |-> mm])
     : ma \in Masks, mm \in Masks}

\* command lines that vary the arithmetic, the output being o.fits
PixelCommandLines ==
    [input1 : {<<a_fits>>},
     operation : operations,
     input2 : {<<"2">>, m_fits},
     output : {o_fits},
     prefix : {<<>>},
     suffix : {<<>>},
     mask_name : {<<>>},
     fill_val : {<<>>, <<"0">>},
     overwrite : {FALSE},
     mean : BOOLEAN,
     median : BOOLEAN]

\* command lines that vary where the results go, the operation being +
PathCommandLines ==
    [input1 : {<<a_fits>>, <<ba_fits, a_fits>>},
     operation : {"+"},
     input2 : {<<"2">>, m_fits},
     output : {<<>>, o_fits, a_fits},
     prefix : {<<>>, <<<<"b">>>>},
     suffix : {<<>>, <<<<" ">>>>, <<<<"x">>>>},
     mask_name : {<<>>, k_fits},
     fill_val : {<<>>},
     overwrite : BOOLEAN,
     mean : {FALSE},
     median : {FALSE}]

CommandLines == PixelCommandLines \cup PathCommandLines

InitArith ==
    /\ name_in_header = <<>>
    /\ stds = <<>>
    /\ corners = <<>>
    /\ filter_curve = <<>>
    /\ standard_spectra = <<>>
    /\ seeing = 0
    /\ files = {}
    /\ memo = NoMemo
    /\ ncalls = NoCalls
    /\ loads = 0
    /\ ntmp = 0
    /\ log = <<>>
    /\ op = "parse_args"
    /\ ret = <<>>
    /\ exc = "none"
    /\ args \in CommandLines
    /\ disk \in Disks
    /\ images = <<>>

Main ==
    /\ op = "parse_args"
    /\ \E masked_data \in {"left", "zero"} :
          LET r == main(args, disk, masked_data)
          IN  /\ op' = "main"
              /\ args' = r.args
              /\ disk' = r.disk
              /\ images' = r.images
              /\ ret' = r.val
              /\ exc' = r.exc
    /\ UNCHANGED <<name_in_header, stds, corners, filter_curve, standard_spectra,
                   seeing, memo, ncalls, loads, files, ntmp, log>>

NextArith == Main

SpecArith == InitArith /\ [][NextArith]_vars

\* C11 (as stated): flux is None, nothing raised and no integration run,
\* whenever the target is not a standard or there is no filter curve.
C11_AbsentWhenEitherMissing ==
    (op = "flux" /\ (cls_type # "standard" \/ filter_curve = <<>>)) =>
        /\ exc = "none"
        /\ ret = <<>>
        /\ ncalls["_get_flux"] = 0

\* C11 (amended): _get_flux runs only for a standard with a filter curve.
\* For a target that is not a standard flux is None, nothing is raised and
\* no spectrum is loaded.  For a standard without a filter curve flux first
\* loads the spectrum: it is None when the load succeeds, and the error of
\* the load is raised otherwise; no integration runs in either case.
C11_NoIntegrationUnlessBoth ==
    (classified /\ (cls_type # "standard" \/ filter_curve = <<>>)) =>
        /\ ncalls["_get_flux"] = 0
        /\ memo["_get_flux"] = <<>>
        /\ op = "flux" =>
               /\ ret = <<>>
               /\ exc \in {"none", "IOError", "UnboundLocalError"}
               /\ cls_type # "standard" => (exc = "none" /\ loads = 0)
               /\ exc = "none" <=>
                     \/ cls_type # "standard"
                     \/ /\ str(cls_name) \in DOMAIN standard_spectra
                        /\ \E ii \in 1..Len(standard_spectra[str(cls_name)]) :
                               two_floats(standard_spectra[str(cls_name)][ii])

\* C11, witness: flux of a standard with a spectrum and no filter curve
C11_Witness ==
    /\ op = "flux"
    /\ cls_type = "standard"
    /\ filter_curve = <<>>
    /\ loads = 1
    /\ exc = "none"
    /\ ret = <<>>

\* C12: the spectrum of a standard skips as many lines as stand before the
\* first line of exactly two floats; a resource with no such line fails
\* with a dedicated malformed-spectrum error and returns nothing.
C12_HeaderLengthOrMalformed ==
    ( /\ op = "spectra"
      /\ cls_type = "standard"
      /\ str(cls_name) \in DOMAIN standard_spectra ) =>
        LET lines == standard_spectra[str(cls_name)]
            numeric == {ii \in 1..Len(lines) :
                          /\ Len(lines[ii]) = 2
                          /\ \A k \in 1..2 : lines[ii][k].isfloat}
        IN  IF numeric = {} THEN exc = "MalformedSpectrum" /\ ret = <<>>
            ELSE /\ exc = "none"
                 /\ ret[1].skip_header + 1 \in numeric
                 /\ \A ii \in numeric : ii >= ret[1].skip_header + 1

\* the places of the events of kind k in the log of _get_photometry
events(k) == {i \in 1..Len(log) : log[i].op = k}

\* C15: the photometry routine is invoked after the coordinate file is
\* written with the line RA DEC and closed and after the old output file is
\* removed, with aperture, annulus, dannulus = 2, 6, 3 times the seeing, and
\* its output is read only after it has returned.
C15_PhotometryOrder ==
    \A p \in events("phot") :
        /\ \E w \in events("write"), c \in events("close") :
              /\ w < c /\ c < p
              /\ log[w].file = log[p].args.coords
              /\ log[c].file = log[p].args.coords
              /\ \E ii \in named_as_target :
                     log[w].line = <<stds[ii].ra, stds[ii].dec>>
        /\ \E r \in events("remove") : r < p /\ log[r].file = photfile_name
        /\ log[p].args.apert = 2 * seeing
        /\ log[p].args.annulus = 6 * seeing
        /\ log[p].args.dannulus = 3 * seeing
        /\ \A x \in events("txdump") : x > p
        /\ (op = "counts" /\ exc = "none") => events("txdump") # {}

\* C15, witness: counts of a standard is read, the routine has run once
C15_Witness ==
    /\ op = "counts"
    /\ cls_type = "standard"
    /\ ret = <<"counts">>
    /\ seeing = 3
    /\ Cardinality(events("phot")) = 1
    /\ photfile_name \in files

\* the second operand that meets pixel i of the image read as im1, a number
\* given on the command line or the pixel, the mean or the median of input2
expected_operand(e, i) ==
    IF is_float(args.input2) THEN float(args.input2)
    ELSE IF args.median THEN ma_median(e.im2).data[1]
    ELSE IF args.mean THEN ma_mean(e.im2).data[1]
    ELSE e.im2.data[i]

\* whether input2 leaves a number to operate with at all
operand_defined(e) ==
    is_float(args.input2) \/ ~(args.mean \/ args.median) \/ compressed(e.im2) # <<>>

\* C13: a pixel of the result is masked exactly when it is masked in input1
\* or in input2, a number masking nothing, with --mean and --median too; the
\* mask file written holds that mask; with --fill_val the masked pixels
\* hold the fill value, and every other pixel holds the computed value.
C13_MaskIsUnionAndFill ==
    (op = "main") =>
        \A n \in 1..Len(images) :
            LET e == images[n]
            IN  /\ Len(e.result.mask) = Len(e.im1.mask)
                /\ Len(e.result.data) = Len(e.im1.data)
                /\ \A i \in 1..Len(e.im1.mask) :
                      /\ e.result.mask[i] <=>
                             \/ e.im1.mask[i]
                             \/ ~is_float(args.input2) /\ e.im2.mask[i]
                      /\ (args.fill_val # <<>> /\ e.result.mask[i]) =>
                             e.result.data[i] = float(args.fill_val)
                      /\ ((args.fill_val = <<>> \/ ~e.result.mask[i]) /\ operand_defined(e)) =>
                             e.result.data[i] =
                                 oper(args.operation, e.im1.data[i], expected_operand(e, i))
                /\ (exc = "none" /\ n = Len(images)) =>
                      /\ disk[e.outpt].data = e.result.data
                      /\ \A i \in 1..Len(e.im1.mask) :
                             disk[abspath(e.mask_name)].data[i] = 1 <=> e.result.mask[i]

\* C13, witness: the mean of input2 is used, a pixel is masked in input2
\* only and receives the fill value, the other keeps the computed value
C13_Witness ==
    /\ op = "main"
    /\ exc = "none"
    /\ args.mean
    /\ args.operation = "*"
    /\ args.fill_val = <<"0">>
    /\ Len(images) = 1
    /\ images[1].im1.mask = <<FALSE, FALSE>>
    /\ images[1].im2.mask = <<TRUE, FALSE>>
    /\ images[1].result.mask = <<TRUE, FALSE>>
    /\ images[1].result.data = <<0, 36>>

\* the images named on the command line
input_images ==
    {abspath(args.input1[i]) : i \in 1..Len(args.input1)}
        \cup (IF is_float(args.input2) THEN {} ELSE {abspath(args.input2)})

\* the paths main has written
written == UNION {{images[n].outpt, abspath(images[n].mask_name)} : n \in 1..Len(images)}

\* C14: without --output, --prefix, --suffix and --overwrite main exits with
\* an error and writes nothing; an image named on the command line is
\* written over only with --output, or with --overwrite and neither prefix
\* nor suffix.
C14_OriginalsKept ==
    (op = "main") =>
        /\ (args.output = <<>> /\ args.prefix = <<>> /\ args.suffix = <<>> /\ ~args.overwrite) =>
               (exc = "SystemExit" /\ written = {} /\ disk \in Disks)
        /\ (written \cap input_images # {}) =>
               \/ args.output # <<>>
               \/ args.overwrite /\ args.prefix = <<>> /\ args.suffix = <<>>

=============================================================================
